---- MODULE Spec2Model ----
(***************************************************************************)
(* Model of the rehearsed_multi_student backend: the student agents, the   *)
(* parallel orchestrator (agents/student_agent.py), the text-to-speech     *)
(* service (services/tts_service.py), the feedback agent                   *)
(* (agents/feedback_agent.py) and the /ask endpoints of api/main.py.       *)
(*                                                                         *)
(* One request is processed at a time.  The asyncio event loop is modelled *)
(* by its FIFO queue of ready callbacks (ready): asyncio.gather schedules  *)
(* the first step of every task in argument order, a finished upstream     *)
(* call schedules the resumption of the task that awaits it.  Upstream     *)
(* calls (generation, synthesis) run outside the loop and finish in any    *)
(* order with any result.                                                  *)
(*                                                                         *)
(* api/main.py names the feedback agent's operation analyze_teacher_move;  *)
(* the FeedbackAgent class under agents/ defines it as                     *)
(* analyze_interaction.  The model binds the call to that operation.       *)
(* agents/lesson_summary_agent.py imports the EndLessonResponse models     *)
(* from models/schemas.py; they are defined in                             *)
(* models/lesson_summary_agent/response.py and the model uses those.       *)
(* services/lesson_analyzer.py validates the analysis with                 *)
(* LessonAnalysisOutput, whose required string fields (grade_level, topic, *)
(* ...) are those of the class of that name in models/outputs.py.          *)
(***************************************************************************)
EXTENDS Integers, Sequences, FiniteSets, TLC

\* ------------------------------------------------------------------ bounds
MaxAgents == 3

\* Roster size under the wider set of generation outputs (SpecWide).
MaxAgentsWide == 2

\* ------------------------------------------------------------ basic values
None == "<None>"

Min(a, b) == IF a < b THEN a ELSE b

\* dict.get(key, default)
Get(d, k, default) == IF k \in DOMAIN d THEN d[k] ELSE default

\* The i-th student profile of the profiles directory.
Profile(i) ==
  [id |-> "id" \o ToString(i), name |-> "student" \o ToString(i),
   voice_settings |-> "voice" \o ToString(i),
   learning_style |-> CASE i = 1 -> "algorithmic" [] i = 2 -> "visual"
                        [] i = 3 -> "struggling" [] OTHER -> "kinesthetic"]

Rosters == {[i \in 1..n |-> Profile(i)] : n \in 0..MaxAgents}

\* Teacher prompts of a request.
Stimuli == {"", "What is 1/2 + 1/4?"}

\* The prompt key of a request body; None stands for a body without the key.
PromptFields == Stimuli \cup {None}

\* A request model in which lesson_context is required as well.
TeacherPromptRequestContextRequired(prompt, lesson_context) ==
  prompt # None /\ lesson_context.present

\* TeacherPromptRequest: prompt is a required str, lesson_context is optional.
TeacherPromptRequestValid(prompt, lesson_context) == prompt # None

NoLessonContext == [present |-> FALSE, grade_level |-> "", topic |-> ""]

\* lesson_context of a request: absent, or a LessonContext.
LessonContexts ==
  {NoLessonContext,
   [present |-> TRUE, grade_level |-> "3rd grade", topic |-> "Adding Fractions"]}

Endpoints == {"ask", "ask_with_audio", "ask_with_feedback"}

\* ------------------------------------------------------------ system prompt
UpperCase == "ABCDEFGHIJKLMNOPQRSTUVWXYZ"

LowerCase == "abcdefghijklmnopqrstuvwxyz"

LowerChar(c) ==
  IF \E k \in 1..Len(UpperCase) : SubSeq(UpperCase, k, k) = c
    THEN LET k == CHOOSE j \in 1..Len(UpperCase) : SubSeq(UpperCase, j, j) = c
         IN SubSeq(LowerCase, k, k)
    ELSE c

\* str.lower
Lower(s) ==
  LET low[i \in 0..Len(s)] ==
        IF i = 0 THEN "" ELSE low[i - 1] \o LowerChar(SubSeq(s, i, i))
  IN low[Len(s)]

\* word in s
Contains(s, word) ==
  \E i \in 1..(Len(s) - Len(word) + 1) : SubSeq(s, i, i + Len(word) - 1) = word

AlgorithmicWords == {"equation", "solving", "procedure", "algorithm", "formula"}

VisualWords ==
  {"graph", "diagram", "visual", "geometry", "shape", "pattern", "fraction", "model"}

EarlyGrades == {"1st grade", "2nd grade", "3rd grade", "4th grade"}

\* An unrecognised learning style gets no guidance.
get_learning_style_guidance_partial(profile, lesson_context) ==
  LET topic_lower == Lower(lesson_context.topic) IN
    CASE profile.learning_style = "algorithmic" ->
           IF \E word \in AlgorithmicWords : Contains(topic_lower, word)
             THEN "This topic plays to YOUR STRENGTHS (procedures and formulas)!"
             ELSE "This topic is CHALLENGING for you (less procedural, more conceptual)!"
      [] profile.learning_style = "visual" ->
           IF \E word \in VisualWords : Contains(topic_lower, word)
             THEN "This topic plays to YOUR STRENGTHS (visual/spatial)!"
             ELSE "This topic is CHALLENGING for you (abstract/symbolic)!"
      [] profile.learning_style = "struggling" ->
           IF lesson_context.grade_level \in EarlyGrades
             THEN "As a struggling learner at this grade level:"
             ELSE "As a struggling learner at this advanced level:"
      [] OTHER -> None

\* StudentAgent._get_learning_style_guidance; each text by its first line.
get_learning_style_guidance(profile, lesson_context) ==
  LET topic_lower == Lower(lesson_context.topic) IN
    CASE profile.learning_style = "algorithmic" ->
           IF \E word \in AlgorithmicWords : Contains(topic_lower, word)
             THEN "This topic plays to YOUR STRENGTHS (procedures and formulas)!"
             ELSE "This topic is CHALLENGING for you (less procedural, more conceptual)!"
      [] profile.learning_style = "visual" ->
           IF \E word \in VisualWords : Contains(topic_lower, word)
             THEN "This topic plays to YOUR STRENGTHS (visual/spatial)!"
             ELSE "This topic is CHALLENGING for you (abstract/symbolic)!"
      [] profile.learning_style = "struggling" ->
           IF lesson_context.grade_level \in EarlyGrades
             THEN "As a struggling learner at this grade level:"
             ELSE "As a struggling learner at this advanced level:"
      [] OTHER -> "Respond authentically based on your profile"

NoSystemPrompt == [name |-> "", grade_context |-> "", guidance |-> None]

\* The guidance is asked for whether or not a lesson context came with the
\* request; reading the topic of an absent context raises AttributeError.
build_system_prompt_unguarded(profile, lesson_context) ==
  IF lesson_context.present
    THEN [raised |-> FALSE,
          value |-> [name |-> profile.name, grade_context |-> lesson_context.grade_level,
                     guidance |-> get_learning_style_guidance(profile, lesson_context)]]
    ELSE [raised |-> TRUE, value |-> NoSystemPrompt]

\* StudentAgent._build_system_prompt: who the agent is, the grade it is framed
\* at and, with a lesson context, the guidance for its learning style.
build_system_prompt(profile, lesson_context) ==
  IF lesson_context.present
    THEN [raised |-> FALSE,
          value |-> [name |-> profile.name, grade_context |-> lesson_context.grade_level,
                     guidance |-> get_learning_style_guidance(profile, lesson_context)]]
    ELSE [raised |-> FALSE,
          value |-> [name |-> profile.name, grade_context |-> "8th-grade",
                     guidance |-> None]]

\* -------------------------------------------------- generation capability
\* What client.models.generate_content can do for a student agent: raise,
\* or return a response whose .text is one of these.
GenTexts == {"{full}", "{confidence:1.5}", "not json"}

GenResults ==
  {[kind |-> "raise", payload |-> "timeout"]}
    \cup {[kind |-> "text", payload |-> t] : t \in GenTexts}

\* Further texts the call can return: valid JSON that leaves keys out, or
\* carries an empty, a blank, a null or another "response", a negative
\* confidence, or null where a string is required.
GenTextsWide ==
  GenTexts \cup {"{}", "{response:''}", "{response:' '}", "{response:null}",
                 "{response:'1/2'}", "{confidence:-0.2}", "{thinking_process:null}"}

GenResultsWide ==
  {[kind |-> "raise", payload |-> "timeout"]}
    \cup {[kind |-> "text", payload |-> t] : t \in GenTextsWide}

NoResult == [kind |-> "none", payload |-> ""]

\* json.loads on the texts above; confidence in tenths, JSON null is None.
JsonObjects ==
  LET full == [would_raise_hand |-> TRUE, confidence_score |-> 8,
               thinking_process |-> "I know this", response |-> "3/4"]
  IN [t \in GenTextsWide \ {"not json"} |->
        CASE t = "{full}" -> full
          [] t = "{confidence:1.5}" -> [full EXCEPT !.confidence_score = 15]
          [] t = "{response:''}" ->
               [full EXCEPT !.would_raise_hand = FALSE, !.confidence_score = 3,
                            !.response = ""]
          [] t = "{response:' '}" -> [full EXCEPT !.response = " "]
          [] t = "{response:null}" -> [full EXCEPT !.response = None]
          [] t = "{response:'1/2'}" -> [full EXCEPT !.response = "1/2"]
          [] t = "{confidence:-0.2}" -> [full EXCEPT !.confidence_score = -2]
          [] t = "{thinking_process:null}" -> [full EXCEPT !.thinking_process = None]
          [] OTHER -> [k \in {} |-> None]]

json_loads(t) ==
  IF t \in DOMAIN JsonObjects
    THEN [ok |-> TRUE, value |-> JsonObjects[t], err |-> ""]
    ELSE [ok |-> FALSE, value |-> [x \in {} |-> 0], err |-> "JSONDecodeError"]

\* StudentResponse without its field constraints.
StudentResponseUnchecked(r) == TRUE

\* StudentResponse with ge=0.0 on confidence_score and no le=1.0.
StudentResponseNonNegative(r) ==
  /\ r.would_raise_hand \in BOOLEAN
  /\ r.confidence_score >= 0
  /\ r.thinking_process # None

\* Field constraints of the StudentResponse pydantic model.
StudentResponseValid(r) ==
  /\ r.would_raise_hand \in BOOLEAN
  /\ r.confidence_score >= 0 /\ r.confidence_score <= 10
  /\ r.thinking_process # None

NoOutcome ==
  [student_id |-> "", student_name |-> "", would_raise_hand |-> FALSE,
   confidence_score |-> 0, thinking_process |-> "", response |-> None,
   audio_base64 |-> None]

\* The except branch of StudentAgent.process_prompt.
FallbackResponse(profile, e) ==
  [student_id |-> profile.id, student_name |-> profile.name,
   would_raise_hand |-> FALSE, confidence_score |-> 0,
   thinking_process |-> "Error occurred: " \o e, response |-> None,
   audio_base64 |-> None]

\* The try branch of StudentAgent.process_prompt after the call returned.
ParsedResponse(profile, result) ==
  [student_id |-> profile.id, student_name |-> profile.name,
   would_raise_hand |-> Get(result, "would_raise_hand", FALSE),
   confidence_score |-> Get(result, "confidence_score", 0),
   thinking_process |-> Get(result, "thinking_process", ""),
   response |-> Get(result, "response", None),
   audio_base64 |-> None]

\* process_prompt without its except clause: a failed call, an unparseable
\* text and an invalid StudentResponse raise out of the coroutine.
process_prompt_uncaught(profile, r) ==
  IF r.kind = "raise"
    THEN [raised |-> TRUE, value |-> NoOutcome]
    ELSE LET parsed == json_loads(r.payload) IN
         IF ~parsed.ok
           THEN [raised |-> TRUE, value |-> NoOutcome]
           ELSE LET built == ParsedResponse(profile, parsed.value) IN
                IF StudentResponseValid(built)
                  THEN [raised |-> FALSE, value |-> built]
                  ELSE [raised |-> TRUE, value |-> NoOutcome]

\* StudentAgent.process_prompt from the point where the generation call has
\* finished with raw result r: what the coroutine returns, or that it raises.
process_prompt(profile, r) ==
  IF r.kind = "raise"
    THEN [raised |-> FALSE, value |-> FallbackResponse(profile, r.payload)]
    ELSE LET parsed == json_loads(r.payload) IN
         IF ~parsed.ok
           THEN [raised |-> FALSE, value |-> FallbackResponse(profile, parsed.err)]
           ELSE LET built == ParsedResponse(profile, parsed.value) IN
                IF StudentResponseValid(built)
                  THEN [raised |-> FALSE, value |-> built]
                  ELSE [raised |-> FALSE,
                        value |-> FallbackResponse(profile, "ValidationError")]

\* ---------------------------------------------------- synthesis capability
\* What client.synthesize_speech can do: raise, or return audio bytes.
TtsResults == {"raise", "audio"}

\* str.strip on the utterances of the model.
Strip(text) == IF text \in {"", " "} THEN "" ELSE text

\* Only None is falsy.
TruthyUnlessNone(text) == text # None

\* Truthiness of an Optional[str].
Truthy(text) == text # None /\ text # ""

\* The guard at the top of TextToSpeechService.synthesize_speech.
SkipSynthesis(text) == ~Truthy(text) \/ ~Truthy(Strip(text))

\* base64.b64encode of the MP3 rendered from text with a voice.
AudioOf(text, voice) == "b64(mp3(" \o text \o "," \o voice \o "))"

\* synthesize_speech without its except clause: a failed call raises.
synthesize_speech_uncaught(text, voice, r) ==
  IF r = "audio"
    THEN [raised |-> FALSE, value |-> AudioOf(text, voice)]
    ELSE [raised |-> TRUE, value |-> None]

\* TextToSpeechService.synthesize_speech once the synthesis call has finished
\* with result r.
synthesize_speech(text, voice, r) ==
  IF r = "audio"
    THEN [raised |-> FALSE, value |-> AudioOf(text, voice)]
    ELSE [raised |-> FALSE, value |-> None]

\* ------------------------------------------------------------------- state
VARIABLES
  roster,          \* orchestrator.agents: the profiles, in registration order
  request,         \* the request being handled
  hpc,             \* where the endpoint handler / event_stream stands
  task,            \* the process_prompt tasks of asyncio.gather, by position
  atask,           \* the audio tasks of the second asyncio.gather, by position
  ready,           \* the event loop's FIFO queue of ready callbacks
  doneOrder,       \* positions of the finished process_prompt tasks in completion order,
                   \* kept until the handler moves past the result of their gather
  responses,       \* the list process_prompt_parallel holds after the first gather
  dispatchStatus,  \* "none", "returned" or "raised": outcome of process_prompt_parallel
  students_data,   \* the MultiStudentResponse built by the handler
  httpResponse,    \* "none", "json", "stream" or "500"
  events,          \* the server-sent events emitted so far
  feedbackCall,    \* the feedback agent's generation call
  feedback,        \* what analyze_interaction returned
  evals,           \* two invocations of analyze_interaction, side by side
  lesson,          \* the /lesson/setup or /lesson/end request being handled
  guide,           \* two invocations of _get_learning_style_guidance, side by side
  hist,            \* a conversation history and the prompt sections built from it
  pair,            \* two dispatches running on the one orchestrator
  pairReady        \* the event loop's ready queue while the two dispatches run

vars ==
  <<roster, request, hpc, task, atask, ready, doneOrder, responses,
    dispatchStatus, students_data, httpResponse, events, feedbackCall, feedback,
    evals, lesson, guide, hist, pair, pairReady>>

N == Len(roster)

NoRequest ==
  [endpoint |-> "none", stream_feedback |-> FALSE, prompt |-> "",
   lesson_context |-> NoLessonContext]

NoTask ==
  [pc |-> "created", system_prompt |-> NoSystemPrompt, raw |-> NoResult,
   out |-> NoOutcome]

NoStudentsData == [students |-> <<>>, summary |-> ""]

NoFeedbackCall == [pc |-> "none", raw |-> NoResult]

NoFeedback == [insights |-> <<>>, overall_observation |-> None]

NoEval == [pc |-> "none", prompt |-> "", raw |-> NoResult, value |-> NoFeedback]

NoGuide == [pc |-> "none", style |-> "", topic |-> "", grade_level |-> "", result |-> None]

NoHistory == [pc |-> "none", history |-> <<>>, feedback_lines |-> <<>>, agent_lines |-> <<>>]

NoPairTask == [pc |-> "created", contents |-> None, raw |-> NoResult, out |-> NoOutcome]

NoDispatch ==
  [pc |-> "idle", prompt |-> "", include_audio |-> FALSE, task |-> <<>>,
   atask |-> <<>>, responses |-> <<>>]

NoBody == [kind |-> "none", grade_level |-> "", topic |-> "", context_summary |-> "",
           student_approaches |-> <<>>, sections |-> <<>>]

NoLesson ==
  [endpoint |-> "none", pc |-> "idle", text |-> None, pdf |-> None, exchanges |-> 0,
   calls |-> 0, profiles |-> 0, raw |-> NoResult, status |-> "none", body |-> NoBody]

\* self.profiles = {profile.id: profile for profile in profiles}: a later
\* profile with the same id replaces an earlier one.
ProfilesById(id) ==
  LET same == {i \in 1..N : roster[i].id = id}
      last == CHOOSE i \in same : \A j \in same : j <= i
  IN roster[last]

\* include_audio as each endpoint passes it to process_prompt_parallel
\* (TeacherPromptRequest has no include_audio attribute).
IncludeAudio(req) == req.endpoint = "ask_with_audio"

\* orchestrator = ParallelStudentOrchestrator(profiles, tts_service)
HasTtsService == TRUE

\* No request has arrived yet.
InitIdle ==
  /\ request = NoRequest
  /\ hpc = "idle"
  /\ task = <<>>
  /\ atask = <<>>
  /\ ready = <<>>
  /\ doneOrder = <<>>
  /\ responses = <<>>
  /\ dispatchStatus = "none"
  /\ students_data = NoStudentsData
  /\ httpResponse = "none"
  /\ events = <<>>
  /\ feedbackCall = NoFeedbackCall
  /\ feedback = NoFeedback
  /\ evals = [k \in 1..2 |-> NoEval]
  /\ lesson = NoLesson
  /\ guide = [k \in 1..2 |-> NoGuide]
  /\ hist = NoHistory
  /\ pair = [d \in 1..2 |-> NoDispatch]
  /\ pairReady = <<>>

Init == roster \in Rosters /\ InitIdle

\* ------------------------------------------------- asyncio.gather semantics
\* Only the first awaitable is started.
ScheduledFirstOnly(phase, n) == [i \in 1..Min(n, 1) |-> <<phase, i>>]

\* gather schedules the first step of each awaitable in argument order.
Scheduled(phase, n) == [i \in 1..n |-> <<phase, i>>]

\* The awaiting coroutine is woken by the first task that finishes.
GatherWakesFirstCompleted(tasks) ==
  \/ tasks = <<>>
  \/ \E i \in DOMAIN tasks : tasks[i].pc \in {"done", "raised"}

\* The awaiting coroutine is woken when every task has finished, or as soon as
\* one task has raised (return_exceptions is left at False).
GatherWakes(tasks) ==
  \/ \E i \in DOMAIN tasks : tasks[i].pc = "raised"
  \/ \A i \in DOMAIN tasks : tasks[i].pc = "done"

GatherRaises(tasks) == \E i \in DOMAIN tasks : tasks[i].pc = "raised"

\* Results in the order in which the tasks finished.
GatherResultsByCompletion ==
  [k \in 1..N |-> IF k <= Len(doneOrder) THEN task[doneOrder[k]].out ELSE NoOutcome]

\* responses = await asyncio.gather(*tasks): results in argument order.
GatherResults == [i \in 1..N |-> task[i].out]

\* ------------------------------------------------------- endpoint handlers
\* Every response is counted as a raised hand.
CountRaisingHandsAll(resps) == Len(resps)

\* sum(1 for r in student_responses if r.would_raise_hand)
CountRaisingHands(resps) == Cardinality({i \in 1..Len(resps) : resps[i].would_raise_hand})

\* sum(1 for r in student_responses if r.audio_base64)
CountWithAudio(resps) == Cardinality({i \in 1..Len(resps) : Truthy(resps[i].audio_base64)})

\* The f-string each endpoint formats as the summary of its aggregate.
Summary(endpoint, resps) ==
  LET counts == ToString(CountRaisingHands(resps)) \o " out of "
                  \o ToString(Len(resps)) \o " students "
  IN CASE endpoint = "ask" ->
            counts \o "would raise their hand to answer this question."
       [] endpoint = "ask_with_audio" ->
            counts \o "would raise their hand. Audio generated for "
              \o ToString(CountWithAudio(resps)) \o " responses."
       [] OTHER ->
            counts \o "would raise their hand to answer."

\* The handler starts the event stream whatever stream_feedback says.
HandlerContinuesStreaming(resps) ==
  /\ responses' = resps
  /\ dispatchStatus' = "returned"
  /\ students_data' = [students |-> resps, summary |-> Summary(request.endpoint, resps)]
  /\ httpResponse' = "stream"
  /\ hpc' = "emit_students"

\* The handler from the return of process_prompt_parallel to its next
\* suspension point: it builds the MultiStudentResponse and either returns it
\* as JSON or starts the event stream.
HandlerContinues(resps) ==
  /\ responses' = resps
  /\ dispatchStatus' = "returned"
  /\ students_data' = [students |-> resps, summary |-> Summary(request.endpoint, resps)]
  /\ IF request.stream_feedback
       THEN /\ httpResponse' = "stream"
            /\ hpc' = "emit_students"
       ELSE /\ httpResponse' = "json"
            /\ hpc' = "finished"

\* process_prompt_parallel raised: /ask and /ask/with-audio answer 500,
\* /ask/with-feedback is already streaming and emits an error event.
HandlerFails ==
  /\ dispatchStatus' = "raised"
  /\ students_data' = NoStudentsData
  /\ IF request.endpoint = "ask_with_feedback"
       THEN /\ httpResponse' = "stream"
            /\ hpc' = "emit_error"
       ELSE /\ httpResponse' = "500"
            /\ hpc' = "finished"

\* A request arrives.  A body that fails validation is answered 422 before
\* the handler is entered; otherwise the handler runs up to its first await,
\* the gather over the agents' process_prompt coroutines.
StartRequest(endpoint, stream, prompt, lesson_context) ==
  /\ hpc \in {"idle", "finished"}
  /\ request' = [endpoint |-> endpoint,
                 stream_feedback |-> (stream \/ endpoint = "ask_with_feedback"),
                 prompt |-> prompt, lesson_context |-> lesson_context]
  /\ IF TeacherPromptRequestValid(prompt, lesson_context)
       THEN /\ task' = [i \in 1..N |-> NoTask]
            /\ ready' = Scheduled("gen", N)
            /\ hpc' = "gather_agents"
            /\ httpResponse' = IF endpoint = "ask_with_feedback" THEN "stream" ELSE "none"
       ELSE /\ task' = <<>>
            /\ ready' = <<>>
            /\ hpc' = "finished"
            /\ httpResponse' = "422"
  /\ atask' = <<>>
  /\ doneOrder' = <<>>
  /\ responses' = <<>>
  /\ dispatchStatus' = "none"
  /\ students_data' = NoStudentsData
  /\ events' = <<>>
  /\ feedbackCall' = NoFeedbackCall
  /\ feedback' = NoFeedback
  /\ UNCHANGED <<roster, guide, hist, pair, pairReady, lesson, evals>>

\* First step of a process_prompt task: build the system prompt and issue the
\* generation call through asyncio.to_thread.
IssueGeneration ==
  /\ ready # <<>>
  /\ Head(ready)[1] = "gen"
  /\ LET i == Head(ready)[2]
         built == build_system_prompt(roster[i], request.lesson_context)
     IN /\ task[i].pc = "created"
        /\ task' = [task EXCEPT ![i].pc = IF built.raised THEN "raised" ELSE "inflight",
                                ![i].system_prompt = built.value]
  /\ ready' = Tail(ready)
  /\ UNCHANGED <<roster, guide, hist, pair, pairReady, lesson, evals, request, hpc, atask, doneOrder, responses, dispatchStatus,
                 students_data, httpResponse, events, feedbackCall, feedback>>

\* The generation call of agent i finishes in its thread with result r; the
\* loop schedules the resumption of the task.
GenerationCompletes(i, r) ==
  /\ i \in DOMAIN task
  /\ task[i].pc = "inflight"
  /\ task' = [task EXCEPT ![i].pc = "completed", ![i].raw = r]
  /\ ready' = Append(ready, <<"gen", i>>)
  /\ UNCHANGED <<roster, guide, hist, pair, pairReady, lesson, evals, request, hpc, atask, doneOrder, responses, dispatchStatus,
                 students_data, httpResponse, events, feedbackCall, feedback>>

\* Every task reads the result of the last agent's call.
AwaitedResultShared(i) == task[N].raw

\* response = await asyncio.to_thread(...): the result task i receives.
AwaitedResult(i) == task[i].raw

\* The task resumes after its await and runs process_prompt to its return.
ResumeProcessPrompt ==
  /\ ready # <<>>
  /\ Head(ready)[1] = "gen"
  /\ LET i == Head(ready)[2]
         res == process_prompt(roster[i], AwaitedResult(i))
     IN /\ task[i].pc = "completed"
        /\ task' = [task EXCEPT ![i].pc = IF res.raised THEN "raised" ELSE "done",
                                ![i].out = res.value]
        /\ doneOrder' = Append(doneOrder, i)
  /\ ready' = Tail(ready)
  /\ UNCHANGED <<roster, guide, hist, pair, pairReady, lesson, evals, request, hpc, atask, responses, dispatchStatus,
                 students_data, httpResponse, events, feedbackCall, feedback>>

\* The audio task process_prompt_parallel creates for one response.
AudioTaskFor(response) ==
  IF Truthy(response.response)
    THEN [pc |-> "created", kind |-> "synthesize", text |-> response.response,
          voice |-> ProfilesById(response.student_id).voice_settings,
          raw |-> "none", value |-> None]
    ELSE [pc |-> "created", kind |-> "sleep", text |-> None, voice |-> "",
          raw |-> "none", value |-> None]

\* The first gather wakes process_prompt_parallel.
JoinAgents ==
  /\ hpc = "gather_agents"
  /\ GatherWakes(task)
  /\ IF GatherRaises(task)
       THEN /\ HandlerFails
            /\ UNCHANGED <<responses, atask, ready>>
       ELSE IF IncludeAudio(request) /\ HasTtsService
              THEN /\ responses' = GatherResults
                   /\ atask' = [i \in 1..N |-> AudioTaskFor(GatherResults[i])]
                   /\ ready' = ready \o Scheduled("tts", N)
                   /\ hpc' = "gather_audio"
                   /\ UNCHANGED <<dispatchStatus, students_data, httpResponse>>
              ELSE /\ HandlerContinues(GatherResults)
                   /\ UNCHANGED <<atask, ready>>
  /\ doneOrder' = IF ~GatherRaises(task) /\ IncludeAudio(request) /\ HasTtsService
                   THEN <<>> ELSE doneOrder
  /\ UNCHANGED <<roster, guide, hist, pair, pairReady, lesson, evals, request, task, events, feedbackCall, feedback>>

\* First step of an audio task: asyncio.sleep(0, result=None) yields None;
\* synthesize_speech returns None for blank text and otherwise issues the
\* synthesis call through asyncio.to_thread.
StartAudioTask ==
  /\ ready # <<>>
  /\ Head(ready)[1] = "tts"
  /\ LET i == Head(ready)[2] IN
       /\ atask[i].pc = "created"
       /\ atask' = [atask EXCEPT ![i].pc =
                      IF atask[i].kind = "sleep" \/ SkipSynthesis(atask[i].text)
                        THEN "done" ELSE "inflight"]
  /\ ready' = Tail(ready)
  /\ UNCHANGED <<roster, guide, hist, pair, pairReady, lesson, evals, request, hpc, task, doneOrder, responses, dispatchStatus,
                 students_data, httpResponse, events, feedbackCall, feedback>>

\* The synthesis call of audio task i finishes in its thread with result r.
SynthesisCompletes(i, r) ==
  /\ i \in DOMAIN atask
  /\ atask[i].pc = "inflight"
  /\ atask' = [atask EXCEPT ![i].pc = "completed", ![i].raw = r]
  /\ ready' = Append(ready, <<"tts", i>>)
  /\ UNCHANGED <<roster, guide, hist, pair, pairReady, lesson, evals, request, hpc, task, doneOrder, responses, dispatchStatus,
                 students_data, httpResponse, events, feedbackCall, feedback>>

\* The audio task resumes and synthesize_speech runs to its return.
ResumeSynthesis ==
  /\ ready # <<>>
  /\ Head(ready)[1] = "tts"
  /\ LET i == Head(ready)[2]
         res == synthesize_speech(atask[i].text, atask[i].voice, atask[i].raw)
     IN /\ atask[i].pc = "completed"
        /\ atask' = [atask EXCEPT ![i].pc = IF res.raised THEN "raised" ELSE "done",
                                  ![i].value = res.value]
  /\ ready' = Tail(ready)
  /\ UNCHANGED <<roster, guide, hist, pair, pairReady, lesson, evals, request, hpc, task, doneOrder, responses, dispatchStatus,
                 students_data, httpResponse, events, feedbackCall, feedback>>

\* The audio results are attached in the opposite order.
AttachAudioReversed ==
  [i \in 1..N |-> [responses[i] EXCEPT !.audio_base64 = atask[N + 1 - i].value]]

\* for response, audio_base64 in zip(responses, audio_results)
AttachAudio == [i \in 1..N |-> [responses[i] EXCEPT !.audio_base64 = atask[i].value]]

\* The second gather wakes process_prompt_parallel, which attaches the audio
\* and returns.
JoinAudio ==
  /\ hpc = "gather_audio"
  /\ GatherWakes(atask)
  /\ IF GatherRaises(atask)
       THEN HandlerFails /\ UNCHANGED responses
       ELSE HandlerContinues(AttachAudio)
  /\ UNCHANGED <<roster, guide, hist, pair, pairReady, lesson, evals, request, task, atask, ready, doneOrder, events,
                 feedbackCall, feedback>>

\* ----------------------------------------------------------- feedback agent
\* What client.aio.models.generate_content can do for the feedback agent:
\* raise, or return a response whose .text is one of these ("" stands for an
\* absent text).
FeedbackTexts == {"{insights}", "garbage A", "garbage B", ""}

FeedbackResults ==
  {[kind |-> "raise", payload |-> "timeout"]}
    \cup {[kind |-> "text", payload |-> t] : t \in FeedbackTexts}

\* response.text[:200]
ObservationLimit == 200

Truncate(text, n) == SubSeq(text, 1, Min(Len(text), n))

\* TeacherFeedbackOutput.model_validate_json on the texts above.
FeedbackOutputs ==
  [t \in {"{insights}"} |->
     [insights |-> <<[category |-> "questioning", message |-> "You pressed for reasoning",
                      severity |-> "info"]>>,
      overall_observation |-> "A probing question"]]

\* The except branch of FeedbackAgent.analyze_interaction.
FallbackFeedback(text) ==
  [insights |-> <<[category |-> "engagement", message |-> "Feedback analysis in progress...",
                   severity |-> "info"]>>,
   overall_observation |-> IF Truthy(text) THEN Truncate(text, ObservationLimit)
                           ELSE "Analysis pending"]

\* FeedbackAgent.analyze_interaction from the point where its generation call
\* has finished with raw result r.  The call is awaited outside the try block.
analyze_interaction(r) ==
  IF r.kind = "raise"
    THEN [raised |-> TRUE, value |-> [insights |-> <<>>, overall_observation |-> None],
          err |-> r.payload]
    ELSE IF r.payload \in DOMAIN FeedbackOutputs
           THEN [raised |-> FALSE, value |-> FeedbackOutputs[r.payload], err |-> ""]
           ELSE [raised |-> FALSE, value |-> FallbackFeedback(r.payload), err |-> ""]

\* -------------------------------------------------------------- event_stream
Event(name, sd, fb, err) == [event |-> name, students |-> sd, feedback |-> fb, error |-> err]

\* yield "event: students_response" with the aggregate as data.
EmitStudentsResponse ==
  /\ hpc = "emit_students"
  /\ events' = Append(events, Event("students_response", students_data, NoFeedback, ""))
  /\ hpc' = "before_feedback"
  /\ doneOrder' = <<>>
  /\ UNCHANGED <<roster, guide, hist, pair, pairReady, lesson, evals, request, task, atask, ready, responses,
                 dispatchStatus, students_data, httpResponse, feedbackCall, feedback>>

\* The feedback call is issued before the students_response event is yielded.
IssueFeedbackCallEarly ==
  /\ hpc = "emit_students"
  /\ feedbackCall' = [pc |-> "inflight", raw |-> NoResult]
  /\ hpc' = "await_feedback"
  /\ UNCHANGED <<roster, guide, hist, pair, pairReady, lesson, evals, request, task, atask, ready, doneOrder, responses,
                 dispatchStatus, students_data, httpResponse, events, feedback>>

\* After the sleep the stream calls the feedback agent, which builds its
\* context and issues its generation call.
IssueFeedbackCall ==
  /\ hpc = "before_feedback"
  /\ feedbackCall' = [pc |-> "inflight", raw |-> NoResult]
  /\ hpc' = "await_feedback"
  /\ UNCHANGED <<roster, guide, hist, pair, pairReady, lesson, evals, request, task, atask, ready, doneOrder, responses,
                 dispatchStatus, students_data, httpResponse, events, feedback>>

\* The feedback agent's generation call finishes with result r and
\* analyze_interaction returns to the stream, or raises into its except.
FeedbackCompletes(r) ==
  /\ hpc = "await_feedback"
  /\ feedbackCall.pc = "inflight"
  /\ LET res == analyze_interaction(r) IN
       /\ feedbackCall' = [pc |-> IF res.raised THEN "raised" ELSE "returned", raw |-> r]
       /\ feedback' = res.value
       /\ hpc' = IF res.raised THEN "emit_error" ELSE "emit_feedback"
  /\ UNCHANGED <<roster, guide, hist, pair, pairReady, lesson, evals, request, task, atask, ready, doneOrder, responses,
                 dispatchStatus, students_data, httpResponse, events>>

\* yield "event: teacher_feedback" with the feedback as data.
EmitTeacherFeedback ==
  /\ hpc = "emit_feedback"
  /\ events' = Append(events, Event("teacher_feedback", NoStudentsData, feedback, ""))
  /\ hpc' = "emit_done"
  /\ UNCHANGED <<roster, guide, hist, pair, pairReady, lesson, evals, request, task, atask, ready, doneOrder, responses,
                 dispatchStatus, students_data, httpResponse, feedbackCall, feedback>>

\* yield "event: done"; the generator ends.
EmitDone ==
  /\ hpc = "emit_done"
  /\ events' = Append(events, Event("done", NoStudentsData, NoFeedback, ""))
  /\ hpc' = "finished"
  /\ UNCHANGED <<roster, guide, hist, pair, pairReady, lesson, evals, request, task, atask, ready, doneOrder, responses,
                 dispatchStatus, students_data, httpResponse, feedbackCall, feedback>>

\* The error event carries no text.
StreamErrorBlank == ""

\* str(e) of the exception the stream's except clause caught.
StreamError ==
  IF feedbackCall.pc = "raised" THEN feedbackCall.raw.payload ELSE "dispatch failed"

\* The error event does not end the generator: a done event follows.
EmitErrorThenDone ==
  /\ hpc = "emit_error"
  /\ events' = Append(events, Event("error", NoStudentsData, NoFeedback, StreamError))
  /\ hpc' = "emit_done"
  /\ UNCHANGED <<roster, guide, hist, pair, pairReady, lesson, evals, request, task, atask, ready, doneOrder, responses,
                 dispatchStatus, students_data, httpResponse, feedbackCall, feedback>>

\* except Exception: yield "event: error"; the generator ends.
EmitError ==
  /\ hpc = "emit_error"
  /\ events' = Append(events, Event("error", NoStudentsData, NoFeedback, StreamError))
  /\ hpc' = "finished"
  /\ UNCHANGED <<roster, guide, hist, pair, pairReady, lesson, evals, request, task, atask, ready, doneOrder, responses,
                 dispatchStatus, students_data, httpResponse, feedbackCall, feedback>>

\* ------------------------------------------------------------ specification
Next ==
  \/ \E e \in Endpoints, s \in BOOLEAN, p \in PromptFields, c \in LessonContexts :
       StartRequest(e, s, p, c)
  \/ IssueGeneration
  \/ \E i \in 1..MaxAgents, r \in GenResults : GenerationCompletes(i, r)
  \/ ResumeProcessPrompt
  \/ JoinAgents
  \/ StartAudioTask
  \/ \E i \in 1..MaxAgents, r \in TtsResults : SynthesisCompletes(i, r)
  \/ ResumeSynthesis
  \/ JoinAudio
  \/ EmitStudentsResponse
  \/ IssueFeedbackCall
  \/ \E r \in FeedbackResults : FeedbackCompletes(r)
  \/ EmitTeacherFeedback
  \/ EmitDone
  \/ EmitError

Spec == Init /\ [][Next]_vars

\* ------------------------------- the wider set of generation outputs
InitWide == Init /\ Len(roster) <= MaxAgentsWide

NextWide ==
  \/ \E e \in Endpoints, s \in BOOLEAN, p \in PromptFields, c \in LessonContexts :
       StartRequest(e, s, p, c)
  \/ IssueGeneration
  \/ \E i \in 1..MaxAgentsWide, r \in GenResultsWide : GenerationCompletes(i, r)
  \/ ResumeProcessPrompt
  \/ JoinAgents
  \/ StartAudioTask
  \/ \E i \in 1..MaxAgentsWide, r \in TtsResults : SynthesisCompletes(i, r)
  \/ ResumeSynthesis
  \/ JoinAudio
  \/ EmitStudentsResponse
  \/ IssueFeedbackCall
  \/ \E r \in FeedbackResults : FeedbackCompletes(r)
  \/ EmitTeacherFeedback
  \/ EmitDone
  \/ EmitError

SpecWide == InitWide /\ [][NextWide]_vars

\* ------------------------------------------------------------- scheduling
\* The event loop runs every ready callback, wakes a coroutine whose gather is
\* settled and keeps driving the response generator.  Nothing bounds the time
\* an upstream call takes: the generation and synthesis calls are issued
\* through asyncio.to_thread without a timeout and awaited without
\* asyncio.wait_for, so their completion is not a fair step.
LoopFairness ==
  /\ WF_vars(IssueGeneration)
  /\ WF_vars(ResumeProcessPrompt)
  /\ WF_vars(JoinAgents)
  /\ WF_vars(StartAudioTask)
  /\ WF_vars(ResumeSynthesis)
  /\ WF_vars(JoinAudio)
  /\ WF_vars(EmitStudentsResponse)
  /\ WF_vars(IssueFeedbackCall)
  /\ WF_vars(EmitTeacherFeedback)
  /\ WF_vars(EmitDone)
  /\ WF_vars(EmitError)

SpecLive == InitWide /\ [][Next]_vars /\ LoopFairness

\* ------------------------------------------- the feedback agent on its own
\* analyze_interaction is called for a teacher prompt; it builds its context
\* and issues its generation call.
EvalIssue(k, prompt) ==
  /\ evals[k].pc = "none"
  /\ evals' = [evals EXCEPT ![k].pc = "inflight", ![k].prompt = prompt]
  /\ UNCHANGED <<roster, guide, hist, pair, pairReady, lesson, request, hpc, task, atask, ready, doneOrder, responses,
                 dispatchStatus, students_data, httpResponse, events, feedbackCall,
                 feedback>>

\* The generation call of invocation k finishes with result r.
EvalCompletes(k, r) ==
  /\ evals[k].pc = "inflight"
  /\ LET res == analyze_interaction(r) IN
       evals' = [evals EXCEPT ![k].pc = IF res.raised THEN "raised" ELSE "returned",
                              ![k].raw = r, ![k].value = res.value]
  /\ UNCHANGED <<roster, guide, hist, pair, pairReady, lesson, request, hpc, task, atask, ready, doneOrder, responses,
                 dispatchStatus, students_data, httpResponse, events, feedbackCall,
                 feedback>>

NextEval ==
  \/ \E k \in 1..2, p \in Stimuli : EvalIssue(k, p)
  \/ \E k \in 1..2, r \in FeedbackResults : EvalCompletes(k, r)

SpecEval == Init /\ [][NextEval]_vars

\* ------------------------------------------------------- lesson endpoints
\* lesson_plan_text / lesson_plan_pdf_base64 of a /lesson/setup payload; None
\* stands for a key the payload leaves out.
LessonPlanTexts == {None, "", "Lesson: adding fractions"}

LessonPlanPdfs == {None, "", "JVBERi0="}

\* LessonSetupRequest: lesson_plan_text is a required str, the PDF is optional.
LessonSetupRequestValid(text, pdf) == text # None

\* content_parts as analyze_lesson_plan builds it.
content_parts(text, pdf) ==
  (IF Truthy(text) THEN <<"text">> ELSE <<>>) \o (IF Truthy(pdf) THEN <<"pdf">> ELSE <<>>)

\* What generate_content can do for the lesson analyzer.
AnalysisTexts == {"{analysis}", "{no topic}", "not json"}

AnalysisResults ==
  {[kind |-> "raise", payload |-> "timeout"]}
    \cup {[kind |-> "text", payload |-> t] : t \in AnalysisTexts}

\* The except branch of analyze_lesson_plan.
FallbackContext(e) ==
  [NoBody EXCEPT !.kind = "context", !.grade_level = "Unknown",
                 !.topic = "General Discussion",
                 !.context_summary = "Lesson context could not be fully extracted: " \o e]

\* analyze_lesson_plan with the generation call inside the try block: a
\* failed call gives the fallback context as well.
analyze_lesson_plan_guarded(r) ==
  IF r.kind = "raise"
    THEN [raised |-> FALSE, err |-> "", value |-> FallbackContext(r.payload)]
    ELSE IF r.payload = "{analysis}"
           THEN [raised |-> FALSE, err |-> "",
                 value |-> [NoBody EXCEPT !.kind = "context", !.grade_level = "3rd grade",
                                          !.topic = "Fractions",
                                          !.context_summary = "Students draw models",
                                          !.student_approaches = <<"id1">>]]
           ELSE IF r.payload = "{no topic}"
             THEN [raised |-> FALSE, err |-> "",
                   value |-> FallbackContext("ValidationError")]
             ELSE [raised |-> FALSE, err |-> "",
                   value |-> FallbackContext("JSONDecodeError")]

\* LessonAnalyzer.analyze_lesson_plan once its generation call has finished
\* with raw result r.  The call is awaited outside the try block; json.loads
\* and the LessonAnalysisOutput validation are inside it.
analyze_lesson_plan(r) ==
  IF r.kind = "raise"
    THEN [raised |-> TRUE, value |-> NoBody, err |-> r.payload]
    ELSE IF r.payload = "{analysis}"
           THEN [raised |-> FALSE, err |-> "",
                 value |-> [NoBody EXCEPT !.kind = "context", !.grade_level = "3rd grade",
                                          !.topic = "Fractions",
                                          !.context_summary = "Students draw models",
                                          !.student_approaches = <<"id1">>]]
           ELSE IF r.payload = "{no topic}"
             THEN [raised |-> FALSE, err |-> "",
                   value |-> FallbackContext("ValidationError")]
             ELSE [raised |-> FALSE, err |-> "",
                   value |-> FallbackContext("JSONDecodeError")]

\* POST /lesson/setup up to its first await: request validation, then
\* analyze_lesson_plan up to the generation call, or its ValueError, which the
\* handler turns into HTTPException(500).
setup_lesson(text, pdf) ==
  /\ lesson.pc \in {"idle", "finished"}
  /\ LET base == [NoLesson EXCEPT !.endpoint = "setup", !.text = text, !.pdf = pdf] IN
       lesson' =
         IF ~LessonSetupRequestValid(text, pdf)
           THEN [base EXCEPT !.pc = "finished", !.status = "422"]
         ELSE IF content_parts(text, pdf) = <<>>
           THEN [base EXCEPT !.pc = "finished", !.status = "500"]
         ELSE [base EXCEPT !.pc = "inflight", !.calls = 1, !.profiles = N]
  /\ UNCHANGED <<roster, guide, hist, pair, pairReady, request, hpc, task, atask, ready, doneOrder, responses,
                 dispatchStatus, students_data, httpResponse, events, feedbackCall,
                 feedback, evals>>

\* The analyzer's generation call finishes with result r; the handler returns
\* the LessonContext or answers 500.
AnalysisCompletes(r) ==
  /\ lesson.endpoint = "setup"
  /\ lesson.pc = "inflight"
  /\ LET res == analyze_lesson_plan(r) IN
       lesson' = [lesson EXCEPT !.pc = "finished", !.raw = r,
                                !.status = IF res.raised THEN "500" ELSE "200",
                                !.body = res.value]
  /\ UNCHANGED <<roster, guide, hist, pair, pairReady, request, hpc, task, atask, ready, doneOrder, responses,
                 dispatchStatus, students_data, httpResponse, events, feedbackCall,
                 feedback, evals>>

\* The five keys of the lesson summary JSON.
Sections ==
  {"lesson_summary", "overall_feedback", "strengths_and_growth", "next_steps",
   "celebration"}

\* What generate_content can do for the lesson summary agent.
SummaryTexts ==
  {"{all five}", "{no celebration}", "{total_exchanges:'many'}", "{}", "not json"}

SummaryResults ==
  {[kind |-> "raise", payload |-> "timeout"]}
    \cup {[kind |-> "text", payload |-> t] : t \in SummaryTexts}

\* json.loads on the texts above: each section the JSON holds, and whether
\* its value fits the section's model.
SummaryObjects ==
  [t \in SummaryTexts \ {"not json"} |->
     CASE t = "{all five}" -> [k \in Sections |-> "ok"]
       [] t = "{no celebration}" -> [k \in Sections \ {"celebration"} |-> "ok"]
       [] t = "{total_exchanges:'many'}" ->
            [k \in Sections |-> IF k = "lesson_summary" THEN "invalid" ELSE "ok"]
       [] OTHER -> [k \in {} |-> "ok"]]

\* A section that is missing or invalid is replaced by a default.
generate_lesson_summary_lenient(r) ==
  IF r.kind = "raise"
    THEN [raised |-> TRUE, value |-> NoBody, err |-> r.payload]
    ELSE LET data == IF r.payload \in DOMAIN SummaryObjects
                       THEN SummaryObjects[r.payload] ELSE [k \in {} |-> "ok"]
         IN [raised |-> FALSE, err |-> "",
             value |-> [NoBody EXCEPT !.kind = "summary",
                          !.sections = [k \in Sections |-> Get(data, k, "default")]]]

\* LessonSummaryAgent.generate_lesson_summary once its generation call has
\* finished with raw result r: the call is awaited outside the try block, and
\* every parsing or validation failure is re-raised as ValueError.
generate_lesson_summary(r) ==
  IF r.kind = "raise"
    THEN [raised |-> TRUE, value |-> NoBody, err |-> r.payload]
    ELSE IF r.payload \notin DOMAIN SummaryObjects
      THEN [raised |-> TRUE, value |-> NoBody,
            err |-> "Failed to parse lesson summary: JSONDecodeError"]
    ELSE LET data == SummaryObjects[r.payload] IN
      IF ~(Sections \subseteq DOMAIN data)
        THEN [raised |-> TRUE, value |-> NoBody,
              err |-> "Failed to parse lesson summary: KeyError"]
      ELSE IF \E k \in Sections : data[k] # "ok"
        THEN [raised |-> TRUE, value |-> NoBody,
              err |-> "Failed to parse lesson summary: ValidationError"]
      ELSE [raised |-> FALSE, err |-> "",
            value |-> [NoBody EXCEPT !.kind = "summary",
                                     !.sections = [k \in Sections |-> data[k]]]]

\* Number of messages in the conversation_transcript of a /lesson/end payload.
TranscriptLengths == {0, 2}

\* POST /lesson/end up to its first await: generate_lesson_summary builds its
\* context and issues the generation call.
end_lesson(exchanges) ==
  /\ lesson.pc \in {"idle", "finished"}
  /\ lesson' = [NoLesson EXCEPT !.endpoint = "end", !.exchanges = exchanges,
                                !.pc = "inflight", !.calls = 1]
  /\ UNCHANGED <<roster, guide, hist, pair, pairReady, request, hpc, task, atask, ready, doneOrder, responses,
                 dispatchStatus, students_data, httpResponse, events, feedbackCall,
                 feedback, evals>>

\* The summary agent's generation call finishes with result r; the handler
\* returns the summary or answers HTTPException(500).
SummaryCompletes(r) ==
  /\ lesson.endpoint = "end"
  /\ lesson.pc = "inflight"
  /\ LET res == generate_lesson_summary(r) IN
       lesson' = [lesson EXCEPT !.pc = "finished", !.raw = r,
                                !.status = IF res.raised THEN "500" ELSE "200",
                                !.body = res.value]
  /\ UNCHANGED <<roster, guide, hist, pair, pairReady, request, hpc, task, atask, ready, doneOrder, responses,
                 dispatchStatus, students_data, httpResponse, events, feedbackCall,
                 feedback, evals>>

NextLesson ==
  \/ \E t \in LessonPlanTexts, b \in LessonPlanPdfs : setup_lesson(t, b)
  \/ \E r \in AnalysisResults : AnalysisCompletes(r)
  \/ \E n \in TranscriptLengths : end_lesson(n)
  \/ \E r \in SummaryResults : SummaryCompletes(r)

SpecLesson == Init /\ [][NextLesson]_vars

\* ------------------------------------------- the style guidance on its own
\* profile.learning_style is a plain str.
GuidanceStyles == {"algorithmic", "visual", "struggling", "kinesthetic", ""}

\* lesson_context.topic is a plain str.
GuidanceTopics == {"", "Adding Fractions", "Solving Linear EQUATIONS", "Probability"}

GuidanceGrades == {"3rd grade", "8th grade"}

\* _get_learning_style_guidance is called for an agent with the given learning
\* style and a lesson context with the given topic and grade level.
GuidanceCall(k, style, topic, grade) ==
  /\ guide[k].pc = "none"
  /\ guide' = [guide EXCEPT ![k] =
       [pc |-> "returned", style |-> style, topic |-> topic, grade_level |-> grade,
        result |-> get_learning_style_guidance(
                     [Profile(1) EXCEPT !.learning_style = style],
                     [present |-> TRUE, grade_level |-> grade, topic |-> topic])]]
  /\ UNCHANGED <<roster, request, hpc, task, atask, ready, doneOrder, responses,
                 dispatchStatus, students_data, httpResponse, events, feedbackCall,
                 feedback, evals, lesson, hist, pair, pairReady>>

NextGuidance ==
  \E k \in 1..2, s \in GuidanceStyles, t \in GuidanceTopics, g \in GuidanceGrades :
    GuidanceCall(k, s, t, g)

SpecGuidance == Init /\ [][NextGuidance]_vars

\* ----------------------------------------- the conversation history sections
MaxHistory == 7

\* ConversationMessage(speaker, message)
Messages ==
  {[speaker |-> "teacher", message |-> "Why?"],
   [speaker |-> "Maya", message |-> "Because 2/4 is 1/2"]}

\* request.conversation_history
Histories == UNION {[1..n -> Messages] : n \in 0..MaxHistory}

\* f"{msg.speaker}: {msg.message}"
HistoryLine(msg) == msg.speaker \o ": " \o msg.message

\* conversation_history[-6:]
HistoryWindow == 6

\* conversation_history[:6]
FirstMessages(history) == SubSeq(history, 1, Min(Len(history), HistoryWindow))

\* conversation_history[-6:]: the slice starts at max(len - 6, 0).
LastMessages(history) ==
  LET start == IF Len(history) - HistoryWindow > 0
                 THEN Len(history) - HistoryWindow ELSE 0
  IN SubSeq(history, start + 1, Len(history))

\* The history lines FeedbackAgent.analyze_interaction appends to context_parts.
feedback_history_lines(history) ==
  IF history = <<>> THEN <<>>
  ELSE [k \in 1..Len(LastMessages(history)) |-> HistoryLine(LastMessages(history)[k])]

\* The history_lines StudentAgent._build_system_prompt joins into the prompt.
agent_history_lines(history) ==
  IF history = <<>> THEN <<>>
  ELSE [k \in 1..Len(history) |-> HistoryLine(history[k])]

\* One request's conversation_history reaches the agents' system prompt and
\* the feedback agent's analysis context.
BuildHistorySections(history) ==
  /\ hist' = [pc |-> "built", history |-> history,
              feedback_lines |-> feedback_history_lines(history),
              agent_lines |-> agent_history_lines(history)]
  /\ UNCHANGED <<roster, request, hpc, task, atask, ready, doneOrder, responses,
                 dispatchStatus, students_data, httpResponse, events, feedbackCall,
                 feedback, evals, lesson, guide, pair, pairReady>>

NextHistory == \E h \in Histories : BuildHistorySections(h)

SpecHistory == Init /\ [][NextHistory]_vars

\* -------------------------------------- two dispatches on one orchestrator
\* The module-level orchestrator serves every request: two handlers can be
\* inside process_prompt_parallel at once, their tasks interleaved on the one
\* event loop.
MaxAgentsPair == 1

InitPair == Init /\ Len(roster) <= MaxAgentsPair

\* Both dispatches read the request of the second one once it has arrived.
RequestShared(d) ==
  IF pair[2].pc # "idle"
    THEN [prompt |-> pair[2].prompt, include_audio |-> pair[2].include_audio]
    ELSE [prompt |-> pair[d].prompt, include_audio |-> pair[d].include_audio]

\* The request and include_audio arguments of the call of
\* process_prompt_parallel that makes dispatch d.
RequestOf(d) == [prompt |-> pair[d].prompt, include_audio |-> pair[d].include_audio]

\* A handler calls process_prompt_parallel, which runs up to its first await.
PairStart(d, prompt, include_audio) ==
  /\ pair[d].pc = "idle"
  /\ pair' = [pair EXCEPT ![d] =
       [pc |-> "gather_agents", prompt |-> prompt, include_audio |-> include_audio,
        task |-> [i \in 1..N |-> NoPairTask], atask |-> <<>>, responses |-> <<>>]]
  /\ pairReady' = pairReady \o [i \in 1..N |-> <<d, "gen", i>>]
  /\ UNCHANGED <<roster, request, hpc, task, atask, ready, doneOrder, responses,
                 dispatchStatus, students_data, httpResponse, events, feedbackCall,
                 feedback, evals, lesson, guide, hist>>

\* First step of a process_prompt task of either dispatch.
PairIssueGeneration ==
  /\ pairReady # <<>>
  /\ Head(pairReady)[2] = "gen"
  /\ LET d == Head(pairReady)[1]
         i == Head(pairReady)[3]
     IN /\ pair[d].task[i].pc = "created"
        /\ pair' = [pair EXCEPT ![d].task[i].pc = "inflight",
                                ![d].task[i].contents = RequestOf(d).prompt]
  /\ pairReady' = Tail(pairReady)
  /\ UNCHANGED <<roster, request, hpc, task, atask, ready, doneOrder, responses,
                 dispatchStatus, students_data, httpResponse, events, feedbackCall,
                 feedback, evals, lesson, guide, hist>>

PairGenerationCompletes(d, i, r) ==
  /\ i \in DOMAIN pair[d].task
  /\ pair[d].task[i].pc = "inflight"
  /\ pair' = [pair EXCEPT ![d].task[i].pc = "completed", ![d].task[i].raw = r]
  /\ pairReady' = Append(pairReady, <<d, "gen", i>>)
  /\ UNCHANGED <<roster, request, hpc, task, atask, ready, doneOrder, responses,
                 dispatchStatus, students_data, httpResponse, events, feedbackCall,
                 feedback, evals, lesson, guide, hist>>

PairResumeProcessPrompt ==
  /\ pairReady # <<>>
  /\ Head(pairReady)[2] = "gen"
  /\ LET d == Head(pairReady)[1]
         i == Head(pairReady)[3]
         res == process_prompt(roster[i], pair[d].task[i].raw)
     IN /\ pair[d].task[i].pc = "completed"
        /\ pair' = [pair EXCEPT ![d].task[i].pc = IF res.raised THEN "raised" ELSE "done",
                                ![d].task[i].out = res.value]
  /\ pairReady' = Tail(pairReady)
  /\ UNCHANGED <<roster, request, hpc, task, atask, ready, doneOrder, responses,
                 dispatchStatus, students_data, httpResponse, events, feedbackCall,
                 feedback, evals, lesson, guide, hist>>

\* The first gather of dispatch d wakes its process_prompt_parallel.
PairJoinAgents(d) ==
  /\ pair[d].pc = "gather_agents"
  /\ GatherWakes(pair[d].task)
  /\ LET outs == [i \in 1..N |-> pair[d].task[i].out] IN
       IF GatherRaises(pair[d].task)
         THEN /\ pair' = [pair EXCEPT ![d].pc = "raised"]
              /\ UNCHANGED pairReady
         ELSE IF RequestOf(d).include_audio /\ HasTtsService
           THEN /\ pair' = [pair EXCEPT ![d].pc = "gather_audio",
                                        ![d].responses = outs,
                                        ![d].atask = [i \in 1..N |-> AudioTaskFor(outs[i])]]
                /\ pairReady' = pairReady \o [i \in 1..N |-> <<d, "tts", i>>]
           ELSE /\ pair' = [pair EXCEPT ![d].pc = "returned", ![d].responses = outs]
                /\ UNCHANGED pairReady
  /\ UNCHANGED <<roster, request, hpc, task, atask, ready, doneOrder, responses,
                 dispatchStatus, students_data, httpResponse, events, feedbackCall,
                 feedback, evals, lesson, guide, hist>>

PairStartAudioTask ==
  /\ pairReady # <<>>
  /\ Head(pairReady)[2] = "tts"
  /\ LET d == Head(pairReady)[1]
         i == Head(pairReady)[3]
     IN /\ pair[d].atask[i].pc = "created"
        /\ pair' = [pair EXCEPT ![d].atask[i].pc =
                      IF pair[d].atask[i].kind = "sleep" \/ SkipSynthesis(pair[d].atask[i].text)
                        THEN "done" ELSE "inflight"]
  /\ pairReady' = Tail(pairReady)
  /\ UNCHANGED <<roster, request, hpc, task, atask, ready, doneOrder, responses,
                 dispatchStatus, students_data, httpResponse, events, feedbackCall,
                 feedback, evals, lesson, guide, hist>>

PairSynthesisCompletes(d, i, r) ==
  /\ i \in DOMAIN pair[d].atask
  /\ pair[d].atask[i].pc = "inflight"
  /\ pair' = [pair EXCEPT ![d].atask[i].pc = "completed", ![d].atask[i].raw = r]
  /\ pairReady' = Append(pairReady, <<d, "tts", i>>)
  /\ UNCHANGED <<roster, request, hpc, task, atask, ready, doneOrder, responses,
                 dispatchStatus, students_data, httpResponse, events, feedbackCall,
                 feedback, evals, lesson, guide, hist>>

PairResumeSynthesis ==
  /\ pairReady # <<>>
  /\ Head(pairReady)[2] = "tts"
  /\ LET d == Head(pairReady)[1]
         i == Head(pairReady)[3]
         a == pair[d].atask[i]
         res == synthesize_speech(a.text, a.voice, a.raw)
     IN /\ a.pc = "completed"
        /\ pair' = [pair EXCEPT ![d].atask[i].pc = IF res.raised THEN "raised" ELSE "done",
                                ![d].atask[i].value = res.value]
  /\ pairReady' = Tail(pairReady)
  /\ UNCHANGED <<roster, request, hpc, task, atask, ready, doneOrder, responses,
                 dispatchStatus, students_data, httpResponse, events, feedbackCall,
                 feedback, evals, lesson, guide, hist>>

\* The second gather of dispatch d wakes its process_prompt_parallel, which
\* attaches the audio to its own responses and returns.
PairJoinAudio(d) ==
  /\ pair[d].pc = "gather_audio"
  /\ GatherWakes(pair[d].atask)
  /\ IF GatherRaises(pair[d].atask)
       THEN pair' = [pair EXCEPT ![d].pc = "raised"]
       ELSE pair' = [pair EXCEPT ![d].pc = "returned",
                                 ![d].responses =
                                   [i \in 1..N |-> [pair[d].responses[i] EXCEPT
                                      !.audio_base64 = pair[d].atask[i].value]]]
  /\ UNCHANGED <<roster, request, hpc, task, atask, ready, doneOrder, responses,
                 dispatchStatus, students_data, httpResponse, events, feedbackCall,
                 feedback, evals, lesson, guide, hist, pairReady>>

NextPair ==
  \/ \E d \in 1..2, p \in Stimuli, a \in BOOLEAN : PairStart(d, p, a)
  \/ PairIssueGeneration
  \/ \E d \in 1..2, i \in 1..MaxAgentsPair, r \in GenResults : PairGenerationCompletes(d, i, r)
  \/ PairResumeProcessPrompt
  \/ \E d \in 1..2 : PairJoinAgents(d)
  \/ PairStartAudioTask
  \/ \E d \in 1..2, i \in 1..MaxAgentsPair, r \in TtsResults : PairSynthesisCompletes(d, i, r)
  \/ PairResumeSynthesis
  \/ \E d \in 1..2 : PairJoinAudio(d)

SpecPair == InitPair /\ [][NextPair]_vars

\* ------------------------------------------- profile files sharing an id
\* load_all_profiles appends the profile of every YAML file of the directory
\* and does not compare ids: the profile of file i may declare the id that
\* file j declares.
ProfileWithIdOf(i, j) == [Profile(i) EXCEPT !.id = Profile(j).id]

\* Rosters in which a later file may declare the id of the first.
RostersSharingIds ==
  UNION {{[i \in 1..n |-> ProfileWithIdOf(i, IF i \in S THEN 1 ELSE i)] :
            S \in SUBSET (2..n)} : n \in 1..MaxAgentsWide}

InitSharedIds == roster \in RostersSharingIds /\ InitIdle

SpecSharedIds == InitSharedIds /\ [][Next]_vars

\* ================================================================== claims
Reversed(n) == [k \in 1..n |-> n + 1 - k]

GenText(t) == [kind |-> "text", payload |-> t]

GenRaise == [kind |-> "raise", payload |-> "timeout"]

EventNames == [k \in 1..Len(events) |-> events[k].event]

Emitted(name) == \E k \in 1..Len(events) : events[k].event = name

\* C1: process_prompt_parallel returns the outcomes in registration order:
\* the outcome at position i carries the id and the name of the i-th
\* registered agent, whatever the completion order of the generation calls,
\* on every dispatch.
C1_RegistrationOrder ==
  /\ \A i \in 1..Len(responses) :
       /\ responses[i].student_id = roster[i].id
       /\ responses[i].student_name = roster[i].name
  /\ dispatchStatus = "returned" =>
       /\ Len(responses) = N
       /\ students_data.students = responses

C1_Witness ==
  /\ dispatchStatus = "returned"
  /\ N = MaxAgents
  /\ doneOrder = Reversed(N)
  /\ Len(responses) = N

\* The outcome position i must carry given only agent i's profile and the
\* result of agent i's own generation call.
OwnOutcome(i) ==
  LET raw == task[i].raw
      base == [student_id |-> roster[i].id, student_name |-> roster[i].name,
               would_raise_hand |-> FALSE, confidence_score |-> 0,
               thinking_process |-> "", response |-> None, audio_base64 |-> None]
  IN CASE raw = GenText("{full}") ->
            [base EXCEPT !.would_raise_hand = TRUE, !.confidence_score = 8,
                         !.thinking_process = "I know this", !.response = "3/4"]
       [] raw = GenRaise ->
            [base EXCEPT !.thinking_process = "Error occurred: timeout"]
       [] raw = GenText("not json") ->
            [base EXCEPT !.thinking_process = "Error occurred: JSONDecodeError"]
       [] OTHER ->
            [base EXCEPT !.thinking_process = "Error occurred: ValidationError"]

\* C2: within one dispatch the outcome of agent i depends only on agent i's
\* profile and the result of agent i's own generation call; when another
\* agent's call fails, agent i's outcome is the non-degraded outcome it would
\* have had otherwise.
C2_Isolation ==
  \A i \in 1..Len(responses) :
    [responses[i] EXCEPT !.audio_base64 = None] = OwnOutcome(i)

C2_Witness ==
  /\ dispatchStatus = "returned"
  /\ \E i, j \in 1..Len(responses) :
       /\ i # j
       /\ task[j].raw = GenRaise
       /\ task[i].raw = GenText("{full}")
       /\ responses[i].would_raise_hand
       /\ responses[i].response = "3/4"

FailingResult(raw) ==
  \/ raw.kind = "raise"
  \/ raw.kind = "text" /\ raw.payload \in {"not json", "{confidence:1.5}"}

ErrorTextOf(raw) ==
  IF raw.kind = "raise" THEN raw.payload
  ELSE IF raw.payload = "not json" THEN "JSONDecodeError" ELSE "ValidationError"

\* C3: when an agent's generation call raises, or its output is not parseable
\* JSON or violates the StudentResponse schema, process_prompt returns (does
\* not raise) a degraded outcome: would_raise_hand false, confidence 0.0,
\* response null and a non-empty thinking_process that embeds the error text.
C3_DegradedOutcome ==
  \A i \in DOMAIN task :
    (task[i].pc \in {"done", "raised"} /\ FailingResult(task[i].raw)) =>
      /\ task[i].pc = "done"
      /\ task[i].out.would_raise_hand = FALSE
      /\ task[i].out.confidence_score = 0
      /\ task[i].out.response = None
      /\ task[i].out.thinking_process # ""
      /\ task[i].out.thinking_process = "Error occurred: " \o ErrorTextOf(task[i].raw)

C3_Witness ==
  \E i, j, k \in DOMAIN task :
    /\ task[i].pc = "done" /\ task[i].raw = GenRaise
    /\ task[j].pc = "done" /\ task[j].raw = GenText("not json")
    /\ task[k].pc = "done" /\ task[k].raw = GenText("{confidence:1.5}")

\* C4: whichever generation calls and synthesis calls fail,
\* process_prompt_parallel returns without raising, with exactly one outcome
\* per registered agent; with no registered agent it returns an empty list.
C4_DispatchNeverRaises ==
  /\ dispatchStatus # "raised"
  /\ httpResponse # "500"
  /\ \A i \in DOMAIN task : task[i].pc # "raised"
  /\ \A i \in DOMAIN atask : atask[i].pc # "raised"
  /\ dispatchStatus = "returned" =>
       /\ Len(responses) = N
       /\ Len(students_data.students) = N
       /\ N = 0 => responses = <<>>

C4_Witness ==
  /\ dispatchStatus = "returned"
  /\ Len(responses) = N
  /\ \E i \in DOMAIN task : FailingResult(task[i].raw)
  /\ \E i \in DOMAIN atask : atask[i].raw = "raise"

\* C5: no synthesis call is issued and no aggregate is returned until every
\* registered agent's process_prompt has completed; a failing agent does not
\* end the join early.
C5_JoinWaitsForAll ==
  (/\ httpResponse # "422"
   /\ \/ hpc \notin {"idle", "gather_agents"}
      \/ dispatchStatus # "none"
      \/ atask # <<>>)
    => \A i \in 1..N : task[i].pc = "done"

C5_Witness ==
  /\ hpc = "gather_audio"
  /\ \E i \in DOMAIN atask : atask[i].pc = "inflight"
  /\ \E j \in DOMAIN task : task[j].raw = GenRaise
  /\ doneOrder = <<>>
  /\ N = MaxAgents

C7_StudentsBeforeFeedbackCall ==
  feedbackCall.pc # "none" =>
    /\ Len(events) >= 1
    /\ events[1].event = "students_response"
    /\ events[1].students = students_data
    /\ Len(events[1].students.students) = N

C7_Witness ==
  /\ feedbackCall.pc = "inflight"
  /\ N = MaxAgents
  /\ Len(events) = 1
  /\ events[1].event = "students_response"

Terminal(name) == name \in {"done", "error"}

C9_FeedbackNeverRaises ==
  /\ feedbackCall.pc # "raised"
  /\ (hpc = "finished" /\ httpResponse = "stream" /\ Emitted("students_response"))
       => Emitted("teacher_feedback")

FailedEvaluation(e) ==
  /\ e.pc = "returned"
  /\ e.raw.payload \notin DOMAIN FeedbackOutputs

\* C10: the fallback verdict is fixed: any two failing evaluations return the
\* same verdict, whatever the raw upstream output was.
C10_FallbackIsFixed ==
  \A a, b \in DOMAIN evals :
    (FailedEvaluation(evals[a]) /\ FailedEvaluation(evals[b])) =>
      evals[a].value = evals[b].value

C12_SummaryCounts ==
  dispatchStatus = "returned" =>
    LET st == students_data.students
        n == Len(st)
        raised[i \in 0..n] ==
          IF i = 0 THEN 0
          ELSE raised[i - 1] + (IF st[i].would_raise_hand THEN 1 ELSE 0)
        stated == ToString(raised[n]) \o " out of " \o ToString(n)
                    \o " students would raise their hand"
    IN /\ n = N
       /\ Len(students_data.summary) >= Len(stated)
       /\ SubSeq(students_data.summary, 1, Len(stated)) = stated
       /\ \A k \in 1..Len(events) :
            events[k].event = "students_response" =>
              events[k].students.summary = students_data.summary

C12_Witness ==
  /\ dispatchStatus = "returned"
  /\ N = MaxAgents
  /\ \E i, j \in 1..N :
       /\ students_data.students[i].would_raise_hand
       /\ ~students_data.students[j].would_raise_hand
  /\ SubSeq(students_data.summary, 1, 8) \in {"1 out of", "2 out of"}

C12_WitnessEmpty ==
  /\ dispatchStatus = "returned"
  /\ N = 0
  /\ SubSeq(students_data.summary, 1, 21) = "0 out of 0 students w"

\* C13: for every outcome whose utterance is null or empty (every degraded
\* outcome included) an include_audio dispatch never invokes the synthesis
\* capability and the outcome's audio_base64 is absent; an outcome carries
\* audio only if it has a non-empty utterance.
C13_NoSynthesisWithoutUtterance ==
  /\ \A i \in DOMAIN atask :
       responses[i].response \in {None, ""} =>
         /\ atask[i].pc \in {"created", "done"}
         /\ atask[i].raw = "none"
         /\ atask[i].value = None
  /\ \A i \in 1..Len(students_data.students) :
       LET o == students_data.students[i] IN
         /\ o.response \in {None, ""} => o.audio_base64 = None
         /\ o.audio_base64 # None => (o.response # None /\ Len(o.response) > 0)

C13_Witness ==
  /\ dispatchStatus = "returned"
  /\ request.endpoint = "ask_with_audio"
  /\ \E i, j \in 1..Len(students_data.students) :
       /\ students_data.students[i].response = ""
       /\ task[i].raw = GenText("{response:''}")
       /\ atask[i].pc = "done"
       /\ students_data.students[j].response = None
       /\ FailingResult(task[j].raw)
       /\ atask[j].pc = "done"

\* C14: when the synthesis call for an outcome fails, synthesize_speech returns
\* None instead of raising: that outcome keeps its decision, confidence,
\* reasoning and utterance with audio_base64 absent, and every other outcome of
\* the aggregate carries the audio of its own synthesis call.
C14_SynthesisSoftFail ==
  /\ \A i \in DOMAIN atask : atask[i].pc # "raised"
  /\ (dispatchStatus = "returned" /\ request.endpoint = "ask_with_audio") =>
       \A i \in 1..N :
         LET o == students_data.students[i] IN
           /\ [o EXCEPT !.audio_base64 = None] = task[i].out
           /\ atask[i].raw = "raise" => o.audio_base64 = None
           /\ atask[i].raw = "audio" =>
                o.audio_base64 = AudioOf(task[i].out.response, roster[i].voice_settings)

C14_Witness ==
  /\ dispatchStatus = "returned"
  /\ request.endpoint = "ask_with_audio"
  /\ \E i, j \in 1..N :
       /\ atask[i].raw = "raise"
       /\ students_data.students[i].response = "3/4"
       /\ students_data.students[i].audio_base64 = None
       /\ atask[j].raw = "audio"
       /\ students_data.students[j].audio_base64 # None

\* C15: every upstream call carries a bounded timeout handled like any other
\* failure, so a dispatch whose generation or synthesis call never responds
\* still eventually returns (with that outcome degraded, or its audio absent)
\* instead of waiting forever.
C15_DispatchEventuallyReturns ==
  (hpc \in {"gather_agents", "gather_audio"}) ~> (dispatchStatus # "none")

\* C16: the lesson-end summarizer never returns a partial or fallback summary:
\* generate_lesson_summary returns a summary only when all five sections were
\* parsed and validated; otherwise it raises and POST /lesson/end answers with
\* HTTP 500 and no summary.
C16_SummaryAllOrError ==
  (lesson.endpoint = "end" /\ lesson.pc = "finished") =>
    LET complete == lesson.raw = GenText("{all five}") IN
      /\ lesson.status \in {"200", "500"}
      /\ lesson.status = "200" <=> complete
      /\ lesson.status = "200" =>
           /\ lesson.body.kind = "summary"
           /\ DOMAIN lesson.body.sections = Sections
           /\ \A k \in Sections : lesson.body.sections[k] = "ok"
      /\ lesson.status = "500" => lesson.body = NoBody

C16_Witness ==
  /\ lesson.endpoint = "end"
  /\ lesson.pc = "finished"
  /\ lesson.raw = GenText("{no celebration}")
  /\ lesson.status = "500"
  /\ lesson.body = NoBody

\* C17: a POST /lesson/setup request in which neither lesson_plan_text nor
\* lesson_plan_pdf_base64 is non-empty is rejected with a client-error status,
\* and no generation call is issued for it.
C17_EmptySetupRejected ==
  (/\ lesson.endpoint = "setup"
   /\ lesson.text \in {None, ""}
   /\ lesson.pdf \in {None, ""}) =>
    /\ lesson.pc = "finished"
    /\ lesson.calls = 0
    /\ lesson.status \in {"400", "422"}

\* C18: every outcome in every aggregate has a non-empty thinking_process,
\* whether the agent's generation call succeeded or failed.
C18_ReasoningNonEmpty ==
  \A i \in 1..Len(students_data.students) :
    students_data.students[i].thinking_process \notin {None, ""}

Degraded(o) ==
  /\ o.would_raise_hand = FALSE
  /\ o.confidence_score = 0
  /\ Len(o.thinking_process) > Len("Error occurred: ")
  /\ SubSeq(o.thinking_process, 1, Len("Error occurred: ")) = "Error occurred: "

\* C19: an outcome's response is absent only when the agent's generation call
\* failed: every outcome with response null is the degraded outcome, and every
\* outcome built from a successful generation call has a non-empty string
\* response, also when the agent would not raise its hand.
C19_ResponseAbsentOnlyIfDegraded ==
  \A i \in 1..Len(students_data.students) :
    LET o == students_data.students[i] IN
      /\ o.response = None => Degraded(o)
      /\ ~Degraded(o) => (o.response # None /\ Len(o.response) > 0)

\* A stimulus with an empty prompt text or without a lesson context.
BareStimulus ==
  /\ request.endpoint # "none"
  /\ request.prompt # None
  /\ (request.prompt = "" \/ ~request.lesson_context.present)

\* C20: a stimulus with empty prompt text and/or no lesson context never makes
\* an agent or the dispatch fail: each agent still returns an outcome, an
\* absent lesson context selects the default 8th-grade framing without
\* consulting the style guidance, and POST /ask answers 200 or 422, never a
\* server error.
C20_BareStimulusSafe ==
  /\ BareStimulus =>
       /\ dispatchStatus # "raised"
       /\ \A i \in DOMAIN task : task[i].pc # "raised"
       /\ dispatchStatus = "returned" =>
            /\ Len(students_data.students) = N
            /\ \A i \in 1..N :
                 /\ task[i].pc = "done"
                 /\ [students_data.students[i] EXCEPT !.audio_base64 = None] = task[i].out
       /\ ~request.lesson_context.present =>
            \A i \in DOMAIN task :
              task[i].pc # "created" =>
                /\ task[i].system_prompt.grade_context = "8th-grade"
                /\ task[i].system_prompt.guidance = None
  /\ request.endpoint = "ask" => httpResponse \in {"none", "json", "stream", "422"}
  /\ (request.endpoint = "ask" /\ hpc = "finished") =>
       httpResponse \in {"json", "stream", "422"}

C20_Witness ==
  /\ request.endpoint = "ask"
  /\ request.prompt = ""
  /\ ~request.lesson_context.present
  /\ httpResponse = "json"
  /\ N = MaxAgents
  /\ Len(students_data.students) = N
  /\ \A i \in 1..N : task[i].system_prompt.grade_context = "8th-grade"

\* C21: the style-guidance function is total: for every learning-style tag and
\* every topic string it returns a guidance string, and for every style other
\* than algorithmic, visual and struggling it returns the neutral "Respond
\* authentically based on your profile" default.
C21_GuidanceTotal ==
  \A k \in DOMAIN guide :
    guide[k].pc = "returned" =>
      /\ guide[k].result # None
      /\ Len(guide[k].result) > 0
      /\ guide[k].style \notin {"algorithmic", "visual", "struggling"} =>
           guide[k].result = "Respond authentically based on your profile"

C21_Witness ==
  /\ guide[1].pc = "returned" /\ guide[1].style = "" /\ guide[1].topic = ""
  /\ guide[1].result = "Respond authentically based on your profile"
  /\ guide[2].pc = "returned" /\ guide[2].style = "algorithmic"
  /\ guide[2].topic = "Solving Linear EQUATIONS"
  /\ guide[2].result = "This topic plays to YOUR STRENGTHS (procedures and formulas)!"

\* C24: the guidance string is a function of the learning-style tag and the
\* topic alone: two lesson contexts with the same topic that differ in other
\* fields give an agent of a given learning style the same guidance.
C24_GuidanceByStyleAndTopic ==
  \A a, b \in DOMAIN guide :
    (/\ guide[a].pc = "returned" /\ guide[b].pc = "returned"
     /\ guide[a].style = guide[b].style
     /\ guide[a].topic = guide[b].topic)
      => guide[a].result = guide[b].result

C23_SynthesisPerNonNullUtterance ==
  \A i \in DOMAIN atask :
    atask[i].kind = "synthesize" <=> responses[i].response # None

\* C23: in an include_audio dispatch synthesize_speech is invoked exactly once
\* for each outcome that has a non-empty utterance (an empty utterance is
\* skipped like a null one), with that outcome's utterance; every invocation is
\* issued before any result is consumed; and for every completion order the
\* audio attached to the outcome at position i is the one rendered from
\* outcome i's own utterance, the outcomes keeping their order.
C23_AudioMatchesOwnUtterance ==
  /\ Len(atask) \in {0, N}
  /\ \A i \in DOMAIN atask :
       /\ atask[i].kind = "synthesize" <=> responses[i].response \notin {None, ""}
       /\ atask[i].kind = "synthesize" => atask[i].text = task[i].out.response
       /\ (atask[i].pc \in {"done", "raised"} /\ atask[i].raw # "none") =>
            \A j \in DOMAIN atask : atask[j].pc # "created"
       /\ atask[i].value # None =>
            atask[i].value = AudioOf(task[i].out.response, atask[i].voice)
  /\ (dispatchStatus = "returned" /\ request.endpoint = "ask_with_audio") =>
       \A i \in 1..N :
         LET o == students_data.students[i] IN
           /\ [o EXCEPT !.audio_base64 = None] = task[i].out
           /\ o.audio_base64 = atask[i].value
           /\ atask[i].raw = "audio" =>
                o.audio_base64 = AudioOf(task[i].out.response, atask[i].voice)

\* The second synthesis call has completed while the first is still in flight,
\* for two different utterances.
C23_Witness ==
  /\ hpc = "gather_audio"
  /\ N = MaxAgentsWide
  /\ task[1].out.response = "3/4"
  /\ task[N].out.response = "1/2"
  /\ atask[1].pc = "inflight"
  /\ atask[N].pc = "done"
  /\ atask[N].value = AudioOf("1/2", atask[N].voice)

\* Generation outputs that violate the StudentResponse schema: a confidence
\* above 1 or below 0, or null where the reasoning string is required.
SchemaViolation(raw) ==
  /\ raw.kind = "text"
  /\ raw.payload \in {"{confidence:1.5}", "{confidence:-0.2}", "{thinking_process:null}"}

\* C25: every outcome in every aggregate has a confidence_score in [0,1] (0..10
\* in tenths): when the generation call returns a confidence outside [0,1], or
\* a field of the wrong type, process_prompt returns the degraded outcome with
\* confidence 0.0 instead of an out-of-range outcome or an exception.
C25_ConfidenceInRange ==
  /\ \A i \in DOMAIN task :
       /\ task[i].pc # "raised"
       /\ task[i].pc = "done" =>
            /\ task[i].out.confidence_score >= 0
            /\ task[i].out.confidence_score <= 10
            /\ SchemaViolation(task[i].raw) =>
                 task[i].out = FallbackResponse(roster[i], "ValidationError")
  /\ \A i \in 1..Len(students_data.students) :
       /\ students_data.students[i].confidence_score >= 0
       /\ students_data.students[i].confidence_score <= 10

C25_Witness ==
  /\ dispatchStatus = "returned"
  /\ N = MaxAgentsWide
  /\ task[1].raw = GenText("{confidence:1.5}")
  /\ task[N].raw = GenText("{thinking_process:null}")
  /\ \A i \in {1, N} :
       /\ students_data.students[i].confidence_score = 0
       /\ students_data.students[i].would_raise_hand = FALSE
       /\ students_data.students[i].response = None

\* C26: the feedback agent's analysis context holds a bounded tail of the
\* conversation history: for a history of length L exactly the last min(L, 6)
\* messages, in their original order, and none of the earlier ones; the
\* student agents' system prompt holds the full history in order.
C26_HistoryTail ==
  hist.pc = "built" =>
    LET L == Len(hist.history)
        n == Len(hist.feedback_lines)
    IN /\ n = IF L < 6 THEN L ELSE 6
       /\ \A k \in 1..n :
            hist.feedback_lines[k] = HistoryLine(hist.history[L - n + k])
       /\ Len(hist.agent_lines) = L
       /\ \A k \in 1..L : hist.agent_lines[k] = HistoryLine(hist.history[k])

C26_Witness ==
  /\ hist.pc = "built"
  /\ Len(hist.history) = MaxHistory
  /\ hist.history[1].speaker = "teacher"
  /\ \A k \in 2..MaxHistory : hist.history[k].speaker = "Maya"
  /\ Len(hist.feedback_lines) = 6
  /\ hist.feedback_lines[1] = "Maya: Because 2/4 is 1/2"
  /\ Len(hist.agent_lines) = MaxHistory
  /\ hist.agent_lines[1] = "teacher: Why?"

\* What holds of the two dispatches in every state.
C27_OwnResults ==
  \A d \in 1..2 :
    LET D == pair[d] IN
      /\ D.pc # "raised"
      /\ D.pc # "idle" => Len(D.task) = N
      /\ \A i \in DOMAIN D.task :
           /\ D.task[i].pc # "created" => D.task[i].contents = D.prompt
           /\ D.task[i].pc = "done" =>
                D.task[i].out = process_prompt(roster[i], D.task[i].raw).value
      /\ ~D.include_audio =>
           /\ D.atask = <<>>
           /\ \A i \in DOMAIN D.responses : D.responses[i].audio_base64 = None
      /\ D.pc = "returned" =>
           /\ Len(D.responses) = N
           /\ \A i \in 1..N :
                /\ [D.responses[i] EXCEPT !.audio_base64 = None] = D.task[i].out
                /\ D.include_audio =>
                     /\ D.responses[i].audio_base64 = D.atask[i].value
                     /\ D.atask[i].raw = "audio" =>
                          D.responses[i].audio_base64 =
                            AudioOf(D.task[i].out.response, roster[i].voice_settings)

\* C27: two dispatches running concurrently on the same orchestrator do not
\* interfere: each returns exactly N outcomes derived only from its own
\* stimulus and its own upstream results, includes audio only if its own
\* include_audio flag was set, and no step of either changes the registered
\* agents, their profiles or the stimulus of a dispatch that has started.
C27_NoInterference ==
  /\ []C27_OwnResults
  /\ [][/\ roster' = roster
        /\ \A d \in 1..2 :
             pair[d].pc # "idle" =>
               /\ pair'[d].prompt = pair[d].prompt
               /\ pair'[d].include_audio = pair[d].include_audio]_vars

\* Both dispatches are in progress, on different stimuli: the first awaits its
\* audio, the second its agents.
C27_Witness ==
  /\ N = MaxAgentsPair
  /\ pair[1].pc = "gather_audio"
  /\ pair[1].include_audio
  /\ pair[1].atask[1].pc = "done"
  /\ pair[1].atask[1].value = AudioOf("3/4", roster[1].voice_settings)
  /\ pair[2].pc = "gather_agents"
  /\ ~pair[2].include_audio
  /\ pair[2].prompt # pair[1].prompt
  /\ pair[2].task[1].pc = "done"
  /\ pair[2].task[1].raw = GenRaise

\* C28: lesson setup treats the two failure kinds of its single generation
\* call differently: when the call returns output that cannot be parsed or
\* validated, analyze_lesson_plan returns the fallback context (grade_level
\* "Unknown", topic "General Discussion", no student approaches) and POST
\* /lesson/setup answers 200; when the call itself raises, the error
\* propagates and the endpoint answers 500.
C28_SetupFailureKinds ==
  (lesson.endpoint = "setup" /\ lesson.pc = "finished" /\ lesson.calls = 1) =>
    /\ lesson.raw.kind = "raise" =>
         (lesson.status = "500" /\ lesson.body = NoBody)
    /\ (lesson.raw.kind = "text" /\ lesson.raw.payload \in {"not json", "{no topic}"}) =>
         /\ lesson.status = "200"
         /\ lesson.body.kind = "context"
         /\ lesson.body.grade_level = "Unknown"
         /\ lesson.body.topic = "General Discussion"
         /\ lesson.body.student_approaches = <<>>

C28_Witness ==
  /\ lesson.endpoint = "setup"
  /\ lesson.pc = "finished"
  /\ lesson.calls = 1
  /\ lesson.raw = [kind |-> "text", payload |-> "{no topic}"]
  /\ lesson.status = "200"
  /\ lesson.body.topic = "General Discussion"
  /\ lesson.body.context_summary =
       "Lesson context could not be fully extracted: ValidationError"

\* C29: in an include_audio dispatch the voice configuration used to render
\* the outcome at position i is the voice configuration of the i-th
\* registered agent's own profile, for every roster, rosters in which two
\* registered profiles have the same id included.
C29_OwnVoice ==
  /\ \A i \in DOMAIN atask :
       atask[i].kind = "synthesize" => atask[i].voice = roster[i].voice_settings
  /\ (dispatchStatus = "returned" /\ request.endpoint = "ask_with_audio") =>
       \A i \in 1..N :
         atask[i].raw = "audio" =>
           students_data.students[i].audio_base64 =
             AudioOf(task[i].out.response, roster[i].voice_settings)

\* C30: with stream_feedback false, POST /ask and POST /ask/with-audio return
\* the aggregate without ever invoking the feedback agent: no feedback
\* generation call is issued during or after such a request, and the aggregate
\* is delivered in the step in which the dispatch returns.
C30_NoFeedbackWithoutStreaming ==
  (request.endpoint \in {"ask", "ask_with_audio"} /\ ~request.stream_feedback) =>
    /\ feedbackCall = NoFeedbackCall
    /\ feedback = NoFeedback
    /\ events = <<>>
    /\ httpResponse \in {"none", "json", "500", "422"}
    /\ dispatchStatus = "returned" =>
         /\ hpc = "finished"
         /\ httpResponse = "json"
         /\ Len(students_data.students) = N

C30_Witness ==
  /\ request.endpoint = "ask_with_audio"
  /\ ~request.stream_feedback
  /\ request.prompt = "What is 1/2 + 1/4?"
  /\ request.lesson_context.present
  /\ hpc = "finished"
  /\ httpResponse = "json"
  /\ N = MaxAgents
  /\ Len(students_data.students) = N
  /\ feedbackCall.pc = "none"

====
